---- MODULE Spec2Model ----
(***************************************************************************)
(* Verification model of the lpgnn experiment scripts.                     *)
(*                                                                         *)
(*   SpecExp  : experiments.py   (module-level script, top to bottom)      *)
(*   SpecMain : error.py main()  (argument namespace and nested loops)     *)
(*   SpecLoop : error.py error_estimation (the loop over the runs)         *)
(*   SpecEE   : the ErrorEstimation classes of error.py and tasks.py on    *)
(*              one privatized data set                                    *)
(*   SpecTask : tasks.py LearningTask.__init__                             *)
(*                                                                         *)
(* Tensor entries are exact fractions; the normalisation coefficients of   *)
(* the graph convolution are fixed-point numbers.  GCNConv follows the     *)
(* normalisation by the degree of the source row (with self-loops).        *)
(*                                                                         *)
(* Sequences are 1-based here and 0-based in Python: Python index i is     *)
(* position i + 1.                                                         *)
(***************************************************************************)
EXTENDS Integers, Sequences, FiniteSets, TLC

VARIABLES
    \* ---- experiments.py
    args,        \* argparse namespace of experiments.py (a function on its attribute names)
    xpc,         \* position of the script
    executed,    \* the commands handed to os.system, in order
    childExit,   \* what the launched error.py process did with its command line
    train_runs,  \* the list train_runs
    dsIdx,       \* number of datasets.items() already iterated
    runIdx,      \* number of train_runs already enumerated by the grid / local loop
    dirs,        \* directories created by os.makedirs
    files        \* files written: a function from <<directory, name>> to the list of lines

expVars == <<args, xpc, executed, childExit, train_runs, dsIdx, runIdx, dirs, files>>

VARIABLES
    \* ---- error.py error_estimation / ErrorEstimation, tasks.py ErrorEstimation
    dataset,     \* the loaded data set: raw features x, edge_index, num_nodes, num_features, name
    data,        \* the privatized copy of the data set ("none" before privatize)
    pc,          \* position of the caller
    run,         \* the loop variable of error_estimation
    call,        \* the arguments method, eps, repeats of error_estimation
    ee,          \* the error.py ErrorEstimation object ("none" before construction)
    tee,         \* the tasks.py ErrorEstimation object ("none" before construction)
    log,         \* the calls the logger received, in order
    ret,         \* the list tasks.py ErrorEstimation.run returned (<<>> before)
    draws        \* the feature matrices privatize returned so far, in order

eeVars == <<dataset, data, pc, run, call, ee, tee, log, ret, draws>>

VARIABLES
    \* ---- error.py main
    margs,       \* argparse namespace of error.py (a function on its attribute names)
    mpc,         \* position of main
    di,          \* number of args.datasets already iterated
    mi,          \* number of args.methods already iterated for the current data set
    ei,          \* number of eps values already iterated for the current method
    loaded,      \* the names load_dataset was called with, in order
    loggers,     \* the PandasLogger contexts entered so far, in order, with their state
    calls        \* the calls of error_estimation, in order

mainVars == <<margs, mpc, di, mi, ei, loaded, loggers, calls>>

VARIABLES
    \* ---- tasks.py LearningTask
    targ,        \* the constructor arguments task_name, data (its name), model_name
    tpc,         \* position of the constructor
    lt           \* the attributes of the LearningTask object set so far

taskVars == <<targ, tpc, lt>>

vars == <<expVars, eeVars, mainVars, taskVars>>

(***************************************************************************)
(* Bounds of the explored inputs.                                          *)
(***************************************************************************)
MaxRepeats == 2
MaxGpumemChoices == 2
NumNodes == 2
NumFeatures == 2
MaxVal == 2
MaxEdges == 1
MaxListLen == 2
\* fixed-point resolution of the normalisation coefficients of the convolution
Precision == 1000

(***************************************************************************)
(* Generic helpers.                                                        *)
(***************************************************************************)
RECURSIVE JoinWith(_, _)
\* sep.join(seq) for a sequence of strings
JoinWith(sep, seq) ==
    IF Len(seq) = 0 THEN ""
    ELSE IF Len(seq) = 1 THEN seq[1]
    ELSE seq[1] \o sep \o JoinWith(sep, Tail(seq))

Range(seq) == {seq[i] : i \in 1..Len(seq)}

\* a tensor with its entries computed: the same sequence as f, evaluated once
\* instead of at every use
Tensor(f) == f \o <<>>

Sign(n) == IF n > 0 THEN 1 ELSE IF n < 0 THEN -1 ELSE 0

Abs(n) == IF n < 0 THEN -n ELSE n

RECURSIVE GCD(_, _)
GCD(a, b) == IF b = 0 THEN a ELSE GCD(b, a % b)

RECURSIVE ISqrtBetween(_, _, _)
\* the largest r in lo..hi with r * r <= n
ISqrtBetween(n, lo, hi) ==
    IF lo >= hi THEN lo
    ELSE LET mid == (lo + hi + 1) \div 2
         IN IF mid * mid <= n THEN ISqrtBetween(n, mid, hi)
            ELSE ISqrtBetween(n, lo, mid - 1)

(***************************************************************************)
(* Tensor entries.  A value is a fraction <<n, d>> in lowest terms with    *)
(* d >= 1, or one of the IEEE specials a division by zero produces:        *)
(* <<1, 0>> = inf, <<-1, 0>> = -inf, <<0, 0>> = nan.                       *)
(***************************************************************************)
NaN == <<0, 0>>

Zero == <<0, 1>>

Frac(n, d) ==
    IF d = 0 THEN <<Sign(n), 0>>
    ELSE LET g == GCD(Abs(n), Abs(d))
         IN <<(Sign(d) * n) \div g, Abs(d) \div g>>

IsFinite(a) == a[2] # 0

FAdd(a, b) ==
    IF IsFinite(a) /\ IsFinite(b) THEN Frac(a[1] * b[2] + b[1] * a[2], a[2] * b[2])
    ELSE IF ~IsFinite(a) /\ ~IsFinite(b) THEN (IF a = b THEN a ELSE NaN)
    ELSE IF IsFinite(a) THEN b ELSE a

FNeg(a) == <<-a[1], a[2]>>

FSub(a, b) == FAdd(a, FNeg(b))

FAbs(a) == <<Abs(a[1]), a[2]>>

\* a / b; b = 0 is the positive zero
FDiv(a, b) ==
    IF IsFinite(a) /\ IsFinite(b) THEN Frac(a[1] * b[2], a[2] * b[1])
    ELSE IF ~IsFinite(b) THEN (IF IsFinite(a) THEN Zero ELSE NaN)
    ELSE IF b[1] < 0 THEN FNeg(a) ELSE a

\* a >= 0 as the comparison of floats decides it: false for nan
FGeqZero(a) == a # NaN /\ a[1] >= 0

RECURSIVE FSum(_)
\* the sum of a sequence of values
FSum(seq) == IF Len(seq) = 0 THEN Zero ELSE FAdd(seq[1], FSum(Tail(seq)))

(***************************************************************************)
(* experiments.py                                                          *)
(***************************************************************************)
\* datasets: insertion-ordered dict; each value is the insertion-ordered dict
\* of hyper-parameters with the float rendered as str() renders it in an f-string
datasets ==
    << [name |-> "cora",     hparams |-> << <<"--learning-rate", "0.01">>, <<"--weight-decay", "0.01">>,  <<"--dropout", "0.0">>  >>],
       [name |-> "citeseer", hparams |-> << <<"--learning-rate", "0.01">>, <<"--weight-decay", "0.01">>,  <<"--dropout", "0.0">>  >>],
       [name |-> "pubmed",   hparams |-> << <<"--learning-rate", "0.01">>, <<"--weight-decay", "0.001">>, <<"--dropout", "0.0">>  >>],
       [name |-> "facebook", hparams |-> << <<"--learning-rate", "0.01">>, <<"--weight-decay", "0.001">>, <<"--dropout", "0.5">>  >>],
       [name |-> "github",   hparams |-> << <<"--learning-rate", "0.01">>, <<"--weight-decay", "0.0">>,   <<"--dropout", "0.5">>  >>],
       [name |-> "lastfm",   hparams |-> << <<"--learning-rate", "0.01">>, <<"--weight-decay", "0.001">>, <<"--dropout", "0.75">> >>] >>

\* datasets.keys()
DatasetKeys == [i \in 1..Len(datasets) |-> datasets[i].name]

configs ==
    << " -m raw",
       " -m rnd",
       " -m ohd",
       " -m mbm -e 0.01 0.1 0.5 1 2 4 -k 1 2 4 8 16 32 --no-loops ",
       " -m mbm -e 0.01 0.1 1 -k 1 2 4 8 16 32 ",
       " -m raw -k 1 2 4 8 16 32 --no-loops",
       " -l 0.2 0.4 0.6 0.8 -m mbm -e 0.01 0.1 1 -k 1 2 4 8 --no-loops " >>

\* the command string of line 27
error_run ==
    "python error.py -d " \o JoinWith(" ", DatasetKeys)
        \o " -m agm obm mbm -e 0.1 0.5 1 2 -a mean gcn"

\* sys.argv[1:] of the process that os.system(error_run) starts: the shell
\* splits the command string at the blanks
error_argv ==
    <<"-d">> \o DatasetKeys
        \o <<"-m", "agm", "obm", "mbm", "-e", "0.1", "0.5", "1", "2", "-a", "mean", "gcn">>

\* the valid values of the options of experiments.py
QueueChoices == {"sgpu", "gpu", "lgpu"}
DeviceChoices == {"cpu", "cuda"}
GpumemChoices == {20 * k : k \in 1..MaxGpumemChoices}

\* parser.parse_args(): the attributes queue, gpumem and jobs_dir exist only
\* when the grid subcommand was given
BaseNamespaces ==
    { [a \in {"repeats", "output_dir", "device"} |->
         CASE a = "repeats" -> r [] a = "output_dir" -> "./results" [] a = "device" -> d]
      : r \in 1..MaxRepeats, d \in DeviceChoices }

GridNamespaces ==
    { [a \in {"repeats", "output_dir", "device", "queue", "gpumem", "jobs_dir"} |->
         CASE a = "repeats" -> r [] a = "output_dir" -> "./results" [] a = "device" -> d
           [] a = "queue" -> q [] a = "gpumem" -> m [] a = "jobs_dir" -> "./jobs"]
      : r \in 1..MaxRepeats, d \in DeviceChoices, q \in QueueChoices, m \in GpumemChoices }

\* the command prefix of one dataset, lines 46-48
Command(ds, a) ==
    "python train.py -d " \o ds.name \o " "
        \o JoinWith(" ", [k \in 1..Len(ds.hparams) |-> ds.hparams[k][1] \o " " \o ds.hparams[k][2]])
        \o " -r " \o ToString(a["repeats"]) \o " -o \"" \o a["output_dir"]
        \o "\" --device " \o a["device"] \o " "

\* the content of the job file of Python index i, lines 55-64
JobFileContent(i, line, a) ==
    << "#$ -N job-" \o ToString(i) \o "\n",
       "#$ -S /bin/bash\n",
       "#$ -P socialcomputing\n",
       "#$ -l pytorch," \o a["queue"] \o ",gpumem=" \o ToString(a["gpumem"]) \o "\n",
       "#$ -cwd\n",
       "## Task\n",
       "cd ..\n",
       line \o "\n" >>

\* variant: the index is left out of the file name
JobFileNameFixed(i) == "job.job"

JobFileName(i) == "job-" \o ToString(i) \o ".job"

IdleEE ==
    /\ dataset = "none"
    /\ data = "none"
    /\ pc = "idle"
    /\ run = 0
    /\ call = "none"
    /\ ee = "none"
    /\ tee = "none"
    /\ log = <<>>
    /\ ret = <<>>
    /\ draws = <<>>

IdleMain ==
    /\ margs = <<>>
    /\ mpc = "idle"
    /\ di = 0
    /\ mi = 0
    /\ ei = 0
    /\ loaded = <<>>
    /\ loggers = <<>>
    /\ calls = <<>>

IdleTask ==
    /\ targ = "none"
    /\ tpc = "idle"
    /\ lt = <<>>

(***************************************************************************)
(* error.py: the argument parser of main, lines 76-83.                     *)
(***************************************************************************)
\* the options, in the order add_argument defines them (-h is added by
\* ArgumentParser itself); nargs "1" stands for the default of one value
ErrorParser ==
    << [flags |-> {"-h", "--help"},       dest |-> "help",       nargs |-> "0"],
       [flags |-> {"-d", "--datasets"},   dest |-> "datasets",   nargs |-> "*"],
       [flags |-> {"-m", "--methods"},    dest |-> "methods",    nargs |-> "*"],
       [flags |-> {"-e", "--eps"},        dest |-> "eps_list",   nargs |-> "*"],
       [flags |-> {"-r", "--repeats"},    dest |-> "repeats",    nargs |-> "1"],
       [flags |-> {"-o", "--output-dir"}, dest |-> "output_dir", nargs |-> "1"],
       [flags |-> {"--device"},           dest |-> "device",     nargs |-> "1"] >>

OptionStrings(parser) == UNION {parser[i].flags : i \in 1..Len(parser)}

\* the attributes of the namespace parse_args returns
Dests(parser) == {parser[i].dest : i \in 1..Len(parser)} \ {"help"}

\* the command-line words that begin with '-' (strings are atomic here, so
\* the words of the modelled command lines are listed)
StartsWithDash(t) == t \in OptionStrings(ErrorParser) \cup {"-a"}

RECURSIVE ParseArgs(_, _, _, _)
\* parse_args on argv: nargs is what the option being read still takes,
\* extras the words no option took.  Returns "ok", or the reason parse_args
\* ends the process
ParseArgs(parser, argv, nargs, extras) ==
    IF Len(argv) = 0
    THEN IF nargs = "1" THEN "expected one argument"
         ELSE IF Len(extras) > 0 THEN "unrecognized arguments"
         ELSE "ok"
    ELSE LET t == Head(argv)
         IN IF StartsWithDash(t)
            THEN IF nargs = "1" THEN "expected one argument"
                 ELSE IF t \in {"-h", "--help"} THEN "help"
                 ELSE IF t \in OptionStrings(parser)
                 THEN LET o == CHOOSE i \in 1..Len(parser) : t \in parser[i].flags
                      IN ParseArgs(parser, Tail(argv), parser[o].nargs, extras)
                 ELSE ParseArgs(parser, Tail(argv), "0", Append(extras, t))
            ELSE IF nargs = "*" THEN ParseArgs(parser, Tail(argv), "*", extras)
                 ELSE IF nargs = "1" THEN ParseArgs(parser, Tail(argv), "0", extras)
                 ELSE ParseArgs(parser, Tail(argv), "0", Append(extras, t))

InitExp ==
    /\ IdleEE
    /\ IdleMain
    /\ IdleTask
    /\ args \in BaseNamespaces \cup GridNamespaces
    /\ xpc = "error_run"
    /\ executed = <<>>
    /\ childExit = "none"
    /\ train_runs = <<>>
    /\ dsIdx = 0
    /\ runIdx = 0
    /\ dirs = {}
    /\ files = <<>>

\* line 29: os.system(error_run); the script goes on whatever the exit status
RunErrorCommand ==
    /\ xpc = "error_run"
    /\ executed' = Append(executed, error_run)
    /\ childExit' = ParseArgs(ErrorParser, error_argv, "0", <<>>)
    /\ xpc' = "train_runs"
    /\ UNCHANGED <<args, train_runs, dsIdx, runIdx, dirs, files>>

\* lines 45-50: one iteration of the loop over datasets.items()
BuildTrainRuns ==
    /\ xpc = "train_runs"
    /\ dsIdx < Len(datasets)
    /\ LET command == Command(datasets[dsIdx + 1], args)
       IN train_runs' = train_runs \o [c \in 1..Len(configs) |-> command \o configs[c]]
    /\ dsIdx' = dsIdx + 1
    /\ UNCHANGED <<args, xpc, executed, childExit, runIdx, dirs, files>>

\* variant: the name of the subcommand is tested, which is no attribute
IsGridNever(a) == "grid" \in DOMAIN a

\* line 52: 'queue' in args
IsGrid(a) == "queue" \in DOMAIN a

\* line 52 (and 53 in grid mode): the loop over datasets is over
Dispatch ==
    /\ xpc = "train_runs"
    /\ dsIdx = Len(datasets)
    /\ IF IsGrid(args)
       THEN /\ dirs' = dirs \cup {args["jobs_dir"]}
            /\ xpc' = "grid"
       ELSE /\ dirs' = dirs
            /\ xpc' = "local"
    /\ UNCHANGED <<args, executed, childExit, train_runs, dsIdx, runIdx, files>>

\* lines 54-67: one iteration of enumerate(train_runs)
WriteJobFile ==
    /\ xpc = "grid"
    /\ runIdx < Len(train_runs)
    /\ LET i == runIdx
           path == <<args["jobs_dir"], JobFileName(i)>>
           content == JobFileContent(i, train_runs[i + 1], args)
       IN files' = [p \in DOMAIN files \cup {path} |-> IF p = path THEN content ELSE files[p]]
    /\ runIdx' = runIdx + 1
    /\ UNCHANGED <<args, xpc, executed, childExit, train_runs, dsIdx, dirs>>

\* lines 71-73: one iteration of the local loop
RunTrain ==
    /\ xpc = "local"
    /\ runIdx < Len(train_runs)
    /\ executed' = Append(executed, train_runs[runIdx + 1])
    /\ runIdx' = runIdx + 1
    /\ UNCHANGED <<args, xpc, childExit, train_runs, dsIdx, dirs, files>>

\* line 69 / the end of the local loop
Finish ==
    /\ xpc \in {"grid", "local"}
    /\ runIdx = Len(train_runs)
    /\ xpc' = "done"
    /\ UNCHANGED <<args, executed, childExit, train_runs, dsIdx, runIdx, dirs, files>>

NextExp ==
    \/ (RunErrorCommand /\ UNCHANGED <<eeVars, mainVars, taskVars>>)
    \/ (BuildTrainRuns /\ UNCHANGED <<eeVars, mainVars, taskVars>>)
    \/ (Dispatch /\ UNCHANGED <<eeVars, mainVars, taskVars>>)
    \/ (WriteJobFile /\ UNCHANGED <<eeVars, mainVars, taskVars>>)
    \/ (RunTrain /\ UNCHANGED <<eeVars, mainVars, taskVars>>)
    \/ (Finish /\ UNCHANGED <<eeVars, mainVars, taskVars>>)

SpecExp == InitExp /\ [][NextExp]_vars

(***************************************************************************)
(* Data sets.  x[v][f] is feature f of node v; edge_index is the list of   *)
(* the edges <<row, col>> (source, target).                                *)
(***************************************************************************)
\* raw feature matrices: the features of `hot` are MaxVal at node 1 and 0 at
\* the other nodes (range MaxVal), the other features are 0 everywhere
\* (range 0)
RawFeatures ==
    {[v \in 1..NumNodes |-> [f \in 1..NumFeatures |->
        IF v = 1 /\ f \in hot THEN MaxVal ELSE 0]] : hot \in SUBSET (1..NumFeatures)}

\* the lexicographic order of the edges
EdgeLess(a, b) == a[1] < b[1] \/ (a[1] = b[1] /\ a[2] < b[2])

RECURSIVE SortedEdges(_)
\* the edges of S as a sorted list
SortedEdges(S) ==
    IF S = {} THEN <<>>
    ELSE LET first == CHOOSE a \in S : \A b \in S \ {a} : EdgeLess(a, b)
         IN <<first>> \o SortedEdges(S \ {first})

\* coalesced edge lists (sorted, no duplicates) of at most MaxEdges directed
\* edges, self-loops allowed
EdgeLists ==
    {SortedEdges(S) : S \in {T \in SUBSET ((1..NumNodes) \X (1..NumNodes)) :
                                Cardinality(T) <= MaxEdges}}

Datasets == {[name |-> "cora", x |-> m, edge_index |-> e] : m \in RawFeatures, e \in EdgeLists}

\* data.num_nodes, data.num_features
NumNodesOf(d) == Len(d.x)

NumFeaturesOf(d) == Len(d.x[1])

\* the feature matrices that differ from x at one node only, each feature
\* of that node one step down, unchanged or one step up; x itself is one
PerturbedNode(x) ==
    {[x EXCEPT ![v] = [f \in 1..Len(x[1]) |-> x[v][f] + steps[f]]] :
        v \in 1..Len(x), steps \in [1..Len(x[1]) -> {-1, 0, 1}]}

\* ... in at most one feature of node 1
PerturbedEntry(x) ==
    {x} \cup {[x EXCEPT ![1][f] = @ + step] : f \in 1..Len(x[1]), step \in {-1, 1}}

\* privatize(dataset, method, eps, pfr=1): a copy of the data set whose
\* features are replaced by perturbed ones, here one of `features`
Privatized(d, features) == {[d EXCEPT !.x = m] : m \in features}

\* get_available_mechanisms()
AvailableMechanisms == {"agm", "obm", "mbm"}

(***************************************************************************)
(* torch / torch_geometric operations used by the two ErrorEstimation      *)
(* classes.                                                                *)
(***************************************************************************)
RECURSIVE ScatterAddOnes(_, _)
\* zeros(n).scatter_add_(0, index, ones): entry v counts the positions of index holding v
ScatterAddOnes(index, acc) ==
    IF Len(index) = 0 THEN acc
    ELSE ScatterAddOnes(Tail(index), [acc EXCEPT ![index[1]] = @ + 1])

\* torch_geometric.utils.degree(index, num_nodes)
degree(index, num_nodes) == ScatterAddOnes(index, [v \in 1..num_nodes |-> 0])

\* variant: row and col are taken in the other order
RowSwapped(edge_index) == Tensor([i \in 1..Len(edge_index) |-> edge_index[i][2]])

\* row, col = edge_index
Row(edge_index) == Tensor([i \in 1..Len(edge_index) |-> edge_index[i][1]])

Col(edge_index) == Tensor([i \in 1..Len(edge_index) |-> edge_index[i][2]])

\* the edges the convolution runs over: the given non-loop edges and one
\* self-loop per node
WithSelfLoops(edge_index, n) ==
    SelectSeq(edge_index, LAMBDA e : e[1] # e[2]) \o [v \in 1..n |-> <<v, v>>]

\* deg^(-1/2)[row] * deg^(-1/2)[col] in fixed point with Precision steps per unit
NormCoef(dr, dc) == ISqrtBetween((Precision * Precision) \div (dr * dc), 0, Precision)

RECURSIVE Propagate(_, _, _, _, _)
\* the messages of the edges from position i on are added to out: edge i
\* adds norm[i] * x[row[i]] to the row of its target col[i] (in steps of
\* 1 / Precision)
Propagate(x, edges, norm, i, out) ==
    IF i > Len(edges) THEN out
    ELSE LET source == edges[i][1]
             target == edges[i][2]
             sum == Tensor([f \in 1..Len(x[1]) |-> out[target][f] + norm[i] * x[source][f]])
         IN Propagate(x, edges, norm, i + 1, [out EXCEPT ![target] = sum])

\* the graph convolution with identity weight and zero bias: node v sums
\* the normalised features of the sources of its incoming edges
GCNConv(x, edge_index) ==
    LET n == Len(x)
        edges == WithSelfLoops(edge_index, n)
        row == Row(edges)
        col == Col(edges)
        deg == degree(row, n)
        norm == Tensor([i \in 1..Len(edges) |-> NormCoef(deg[row[i]], deg[col[i]])])
        zeros == Tensor([v \in 1..n |-> Tensor([f \in 1..Len(x[1]) |-> 0])])
        out == Propagate(x, edges, norm, 1, zeros)
    IN Tensor([v \in 1..n |-> Tensor([f \in 1..Len(x[1]) |-> Frac(out[v][f], Precision)])])

\* GConv of the module gnn: the same propagation, without a weight
GConv(x, edge_index) == GCNConv(x, edge_index)

RECURSIVE MinOf(_)
MinOf(seq) ==
    IF Len(seq) = 1 THEN seq[1]
    ELSE LET m == MinOf(Tail(seq)) IN IF seq[1] < m THEN seq[1] ELSE m

RECURSIVE MaxOf(_)
MaxOf(seq) ==
    IF Len(seq) = 1 THEN seq[1]
    ELSE LET m == MaxOf(Tail(seq)) IN IF seq[1] > m THEN seq[1] ELSE m

Column(x, f) == Tensor([v \in 1..Len(x) |-> x[v][f]])

\* beta - alpha: per feature, max minus min over the nodes
Delta(raw_features) ==
    Tensor([f \in 1..Len(raw_features[1]) |->
        MaxOf(Column(raw_features, f)) - MinOf(Column(raw_features, f))])

\* variant: the entries are summed with their signs
SumSigned(diff) ==
    Tensor([v \in 1..Len(diff) |-> FSum([f \in 1..Len(diff[v]) |-> diff[v][f]])])

\* torch.norm(diff, p=1, dim=1): per node, the sum of the absolute entries
NormL1(diff) ==
    Tensor([v \in 1..Len(diff) |-> FSum([f \in 1..Len(diff[v]) |-> FAbs(diff[v][f])])])

\* variant: the zero-range columns are left as the division produced them
MaskNothing(diff, delta) == diff

\* diff[:, (delta == 0)] = 0
MaskZeroRange(diff, delta) ==
    Tensor([v \in 1..Len(diff) |-> Tensor([f \in 1..Len(diff[v]) |->
        IF delta[f] = 0 THEN Zero ELSE diff[v][f]])])

\* list(zip(a, b))
Zip(a, b) ==
    Tensor([i \in 1..(IF Len(a) < Len(b) THEN Len(a) ELSE Len(b)) |-> <<a[i], b[i]>>])

(***************************************************************************)
(* error.py: class ErrorEstimation                                         *)
(***************************************************************************)
\* variant: the baseline is computed from the features of data
NewErrorEstimationFromData(d, raw_features) ==
    [ data |-> d,
      delta |-> Delta(d.x),
      model |-> d.edge_index,
      gc |-> GCNConv(d.x, d.edge_index) ]

\* __init__: the model caches the edges of its first call (cached=True)
NewErrorEstimation(d, raw_features) ==
    [ data |-> d,
      delta |-> Delta(raw_features),
      model |-> d.edge_index,
      gc |-> GCNConv(raw_features, d.edge_index) ]

\* run, lines 30-33
ErrorOf(e) ==
    LET gc_hat == GCNConv(e.data.x, e.model)
        diff == Tensor([v \in 1..Len(gc_hat) |-> Tensor([f \in 1..Len(gc_hat[v]) |->
                    FDiv(FSub(e.gc[v][f], gc_hat[v][f]), <<e.delta[f], 1>>)])])
        norm == NormL1(MaskZeroRange(diff, e.delta))
    IN Tensor([v \in 1..Len(norm) |-> FDiv(norm[v], <<NumFeaturesOf(e.data), 1>>)])

\* run, lines 36-40: the value logged under test_result
TestResult(e) ==
    Zip(ErrorOf(e), degree(Row(e.data.edge_index), NumNodesOf(e.data)))

(***************************************************************************)
(* tasks.py: class ErrorEstimation                                         *)
(***************************************************************************)
NewTaskErrorEstimation(d, orig_features) ==
    [ data |-> d,
      model_name |-> "gcn",
      gc |-> GConv(orig_features, d.edge_index) ]

get_degree(d) == degree(Row(d.edge_index), NumNodesOf(d))

\* run
TaskRun(t) ==
    LET gc_hat == GConv(t.data.x, t.data.edge_index)
        diff == Tensor([v \in 1..Len(gc_hat) |-> Tensor([f \in 1..Len(gc_hat[v]) |->
                    FSub(t.gc[v][f], gc_hat[v][f])])])
        norm == NormL1(diff)
        error == Tensor([v \in 1..Len(norm) |-> FDiv(norm[v], <<Len(diff[1]), 1>>)])
    IN Zip(error, get_degree(t.data))

(***************************************************************************)
(* The logger: the calls it received.                                      *)
(***************************************************************************)
log_params(lg, params) ==
    Append(lg, [kind |-> "params", params |-> params, test_result |-> <<>>])

log_metrics(lg, result) ==
    Append(lg, [kind |-> "metrics", params |-> <<>>, test_result |-> result])

(***************************************************************************)
(* error.py: error_estimation                                              *)
(***************************************************************************)
\* variant: one run too many
InRangeInclusive(r, repeats) == r <= repeats

\* range(repeats) still has the element r
InRange(r, repeats) == r < repeats

\* lines 50-56
Params(ds, c, r) ==
    [task |-> "error", dataset |-> ds.name, method |-> c.method, eps |-> c.eps, run |-> r]

\* line 44
CheckMethod ==
    /\ pc = "assert"
    /\ pc' = IF call.method \in AvailableMechanisms THEN "loop" ELSE "AssertionError"
    /\ UNCHANGED <<dataset, data, run, call, ee, tee, log, ret, draws>>

\* lines 49-60: the next run starts; its parameters are logged
LogParams ==
    /\ pc = "loop"
    /\ InRange(run, call.repeats)
    /\ log' = log_params(log, Params(dataset, call, run))
    /\ pc' = "privatize"
    /\ UNCHANGED <<dataset, data, run, call, ee, tee, ret, draws>>

\* line 49: range(repeats) is exhausted
LoopExit ==
    /\ pc = "loop"
    /\ ~InRange(run, call.repeats)
    /\ pc' = "done"
    /\ UNCHANGED <<dataset, data, run, call, ee, tee, log, ret, draws>>

\* line 62; `features` are the feature matrices the draw is taken from
Privatize(features) ==
    /\ pc = "privatize"
    /\ \E d \in Privatized(dataset, features) :
          /\ data' = d
          /\ draws' = Append(draws, d.x)
    /\ pc' = "estimate"
    /\ UNCHANGED <<dataset, run, call, ee, tee, log, ret>>

\* line 63: the object is constructed and run; afterwards the caller is at
\* `next`, in error_estimation at the head of the loop with the next run
Estimate(next) ==
    /\ pc = "estimate"
    /\ ee' = NewErrorEstimation(data, dataset.x)
    /\ log' = log_metrics(log, TestResult(ee'))
    /\ run' = run + 1
    /\ pc' = next
    /\ UNCHANGED <<dataset, data, call, tee, ret, draws>>

\* the data sets of the runs of the whole loop: the raw feature matrices on
\* the graph that joins nodes 1 and 2 by one undirected edge
LoopDatasets ==
    {[name |-> "cora", x |-> m, edge_index |-> << <<1, 2>>, <<2, 1>> >>] : m \in RawFeatures}

Calls ==
    {[method |-> m, eps |-> 1, repeats |-> r] :
        m \in {"mbm", "none"}, r \in (-1)..MaxRepeats}

IdleExp ==
    /\ args = <<>>
    /\ xpc = "idle"
    /\ executed = <<>>
    /\ childExit = "none"
    /\ train_runs = <<>>
    /\ dsIdx = 0
    /\ runIdx = 0
    /\ dirs = {}
    /\ files = <<>>

InitLoop ==
    /\ dataset \in LoopDatasets
    /\ call \in Calls
    /\ data = "none"
    /\ pc = "assert"
    /\ run = 0
    /\ ee = "none"
    /\ tee = "none"
    /\ log = <<>>
    /\ ret = <<>>
    /\ draws = <<>>
    /\ IdleExp
    /\ IdleMain
    /\ IdleTask

NextLoop ==
    \/ (CheckMethod /\ UNCHANGED <<expVars, mainVars, taskVars>>)
    \/ (LogParams /\ UNCHANGED <<expVars, mainVars, taskVars>>)
    \/ (Privatize(PerturbedEntry(dataset.x)) /\ UNCHANGED <<expVars, mainVars, taskVars>>)
    \/ (Estimate("loop") /\ UNCHANGED <<expVars, mainVars, taskVars>>)
    \/ (LoopExit /\ UNCHANGED <<expVars, mainVars, taskVars>>)

SpecLoop == InitLoop /\ [][NextLoop]_vars

(***************************************************************************)
(* The two ErrorEstimation classes on one privatized data set: error.py's  *)
(* is constructed and run, then tasks.py's.                                *)
(***************************************************************************)
\* tasks.py: ErrorEstimation(data, orig_features).run(logger)
TaskEstimate ==
    /\ pc = "task"
    /\ tee' = NewTaskErrorEstimation(data, dataset.x)
    /\ ret' = TaskRun(tee')
    /\ pc' = "task_done"
    /\ UNCHANGED <<dataset, data, run, call, ee, log, draws>>

InitEE ==
    /\ dataset \in Datasets
    /\ call = [method |-> "mbm", eps |-> 1, repeats |-> 1]
    /\ data = "none"
    /\ pc = "privatize"
    /\ run = 0
    /\ ee = "none"
    /\ tee = "none"
    /\ log = <<>>
    /\ ret = <<>>
    /\ draws = <<>>
    /\ IdleExp
    /\ IdleMain
    /\ IdleTask

NextEE ==
    \/ (Privatize(PerturbedNode(dataset.x)) /\ UNCHANGED <<expVars, mainVars, taskVars>>)
    \/ (Estimate("task") /\ UNCHANGED <<expVars, mainVars, taskVars>>)
    \/ (TaskEstimate /\ UNCHANGED <<expVars, mainVars, taskVars>>)

SpecEE == InitEE /\ [][NextEE]_vars

(***************************************************************************)
(* error.py: main                                                          *)
(***************************************************************************)
RECURSIVE ListsUpTo(_, _)
\* the lists of at most n elements of S
ListsUpTo(S, n) ==
    IF n = 0 THEN {<<>>}
    ELSE LET shorter == ListsUpTo(S, n - 1)
         IN shorter \cup {Append(l, e) : l \in shorter, e \in S}

\* the namespaces parse_args returns for command lines that give -d, -m, -e
\* and -r: one attribute per dest of the parser
MainNamespaces ==
    { [a \in Dests(ErrorParser) |->
         CASE a = "datasets" -> ds
           [] a = "methods" -> ms
           [] a = "eps_list" -> es
           [] a = "repeats" -> r
           [] a = "output_dir" -> "./results"
           [] a = "device" -> "cuda"]
      : ds \in ListsUpTo({"cora", "citeseer"}, MaxListLen),
        ms \in ListsUpTo({"agm", "mbm"}, MaxListLen),
        es \in ListsUpTo({1, 2}, MaxListLen),
        r \in 1..MaxRepeats }

\* line 90
ExperimentName(dataset_name, method) == "error_" \o dataset_name \o "_" \o method

InitMain ==
    /\ margs \in MainNamespaces
    /\ mpc = "datasets"
    /\ di = 0
    /\ mi = 0
    /\ ei = 0
    /\ loaded = <<>>
    /\ loggers = <<>>
    /\ calls = <<>>
    /\ IdleExp
    /\ IdleEE
    /\ IdleTask

\* lines 87-88: the next data set is loaded
NextDataset ==
    /\ mpc = "datasets"
    /\ di < Len(margs["datasets"])
    /\ loaded' = Append(loaded, margs["datasets"][di + 1])
    /\ mi' = 0
    /\ mpc' = "methods"
    /\ UNCHANGED <<margs, di, ei, loggers, calls>>

\* line 87: args.datasets is exhausted, main returns
DatasetsDone ==
    /\ mpc = "datasets"
    /\ di = Len(margs["datasets"])
    /\ mpc' = "done"
    /\ UNCHANGED <<margs, di, mi, ei, loaded, loggers, calls>>

\* lines 89-95: the logger of the next method is opened
NextMethod ==
    /\ mpc = "methods"
    /\ mi < Len(margs["methods"])
    /\ loggers' = Append(loggers,
          [name |-> ExperimentName(margs["datasets"][di + 1], margs["methods"][mi + 1]),
           state |-> "open"])
    /\ ei' = 0
    /\ mpc' = "eps"
    /\ UNCHANGED <<margs, di, mi, loaded, calls>>

\* line 89: args.methods is exhausted, on to the next data set
MethodsDone ==
    /\ mpc = "methods"
    /\ mi = Len(margs["methods"])
    /\ di' = di + 1
    /\ mpc' = "datasets"
    /\ UNCHANGED <<margs, mi, ei, loaded, loggers, calls>>

\* the with statement is left: the logger most recently entered is closed
CloseLogger(lgs) == [lgs EXCEPT ![Len(lgs)].state = "closed"]

\* lines 96-104: `for eps in args.eps` reads the attribute eps of the
\* namespace; a namespace without it raises AttributeError, which leaves the
\* with statement and ends main
EpsLoop ==
    /\ mpc = "eps"
    /\ IF "eps" \in DOMAIN margs
       THEN IF ei < Len(margs["eps"])
            THEN /\ calls' = Append(calls,
                      [dataset |-> margs["datasets"][di + 1],
                       method |-> margs["methods"][mi + 1],
                       eps |-> margs["eps"][ei + 1],
                       repeats |-> margs["repeats"],
                       logger |-> loggers[Len(loggers)].name,
                       device |-> margs["device"]])
                 /\ ei' = ei + 1
                 /\ UNCHANGED <<mpc, mi, loggers>>
            ELSE /\ loggers' = CloseLogger(loggers)
                 /\ mi' = mi + 1
                 /\ mpc' = "methods"
                 /\ UNCHANGED <<ei, calls>>
       ELSE /\ loggers' = CloseLogger(loggers)
            /\ mpc' = "AttributeError"
            /\ UNCHANGED <<mi, ei, calls>>
    /\ UNCHANGED <<margs, di, loaded>>

NextMain ==
    \/ (NextDataset /\ UNCHANGED <<expVars, eeVars, taskVars>>)
    \/ (DatasetsDone /\ UNCHANGED <<expVars, eeVars, taskVars>>)
    \/ (NextMethod /\ UNCHANGED <<expVars, eeVars, taskVars>>)
    \/ (MethodsDone /\ UNCHANGED <<expVars, eeVars, taskVars>>)
    \/ (EpsLoop /\ UNCHANGED <<expVars, eeVars, taskVars>>)

SpecMain == InitMain /\ [][NextMain]_vars

(***************************************************************************)
(* tasks.py: class Task, class LearningTask                                *)
(***************************************************************************)
\* Task.task_list()
TaskTaskList == <<"node", "link", "error">>

\* variant: the override is missing, Task.task_list() is inherited
InheritedTaskList == <<"node", "link", "error">>

\* LearningTask.task_list()
LearningTaskList == <<"node", "link">>

\* the dict Model of get_model: (task_name, model_name) -> model class
Model ==
    [k \in {<<"node", "gcn">>, <<"link", "gcn">>} |->
        IF k = <<"node", "gcn">> THEN "GCNClassifier" ELSE "VGAELinkPredictor"]

DatasetNames == {"cora", "citeseer", "pubmed", "facebook", "github", "lastfm", "flickr"}

InitTask ==
    /\ targ \in [task_name : {"node", "link", "error", "graph"},
                 data : DatasetNames,
                 model_name : {"gcn", "gat"}]
    /\ tpc = "assert"
    /\ lt = <<>>
    /\ IdleExp
    /\ IdleEE
    /\ IdleMain

\* line 35
AssertTaskName ==
    /\ tpc = "assert"
    /\ tpc' = IF targ.task_name \in Range(LearningTaskList) THEN "super" ELSE "AssertionError"
    /\ UNCHANGED <<targ, lt>>

\* lines 36-37 (Task.__init__, then task_name)
SuperInit ==
    /\ tpc = "super"
    /\ lt' = [a \in {"model_name", "data", "task_name"} |->
                CASE a = "model_name" -> targ.model_name
                  [] a = "data" -> targ.data
                  [] a = "task_name" -> targ.task_name]
    /\ tpc' = "get_model"
    /\ UNCHANGED targ

\* line 38: get_model looks the pair up in Model (KeyError when absent) and
\* builds the model found
GetModel ==
    /\ tpc = "get_model"
    /\ LET key == <<lt["task_name"], lt["model_name"]>>
       IN IF key \in DOMAIN Model
          THEN /\ lt' = [a \in DOMAIN lt \cup {"model"} |->
                            IF a = "model" THEN Model[key] ELSE lt[a]]
               /\ tpc' = "constructed"
          ELSE /\ lt' = lt
               /\ tpc' = "KeyError"
    /\ UNCHANGED targ

NextTask ==
    \/ (AssertTaskName /\ UNCHANGED <<expVars, eeVars, mainVars>>)
    \/ (SuperInit /\ UNCHANGED <<expVars, eeVars, mainVars>>)
    \/ (GetModel /\ UNCHANGED <<expVars, eeVars, mainVars>>)

SpecTask == InitTask /\ [][NextTask]_vars

(***************************************************************************)
(* Properties.                                                             *)
(***************************************************************************)
\* max minus min of column f, from the set of the column's values
ColumnRange(x, f) ==
    LET col == {x[v][f] : v \in 1..Len(x)}
    IN (CHOOSE m \in col : \A k \in col : m >= k) - (CHOOSE m \in col : \A k \in col : m <= k)

\* per node v: (1/F) * sum over the features f with range # 0 of
\* |gc[v,f] - gc_hat[v,f]| / range
NormalizedError(raw, priv, edges) ==
    LET F == Len(raw[1])
        gc == GCNConv(raw, edges)
        gc_hat == GCNConv(priv, edges)
        term(v, f) == IF ColumnRange(raw, f) = 0 THEN Zero
                      ELSE FDiv(FAbs(FSub(gc[v][f], gc_hat[v][f])), <<ColumnRange(raw, f), 1>>)
    IN Tensor([v \in 1..Len(raw) |-> FDiv(FSum([f \in 1..F |-> term(v, f)]), <<F, 1>>)])

\* per node v: (1/F) * sum over all features of |gc[v,f] - gc_hat[v,f]|
PlainError(raw, priv, edges) ==
    LET F == Len(raw[1])
        gc == GConv(raw, edges)
        gc_hat == GConv(priv, edges)
    IN Tensor([v \in 1..Len(raw) |->
                 FDiv(FSum([f \in 1..F |-> FAbs(FSub(gc[v][f], gc_hat[v][f]))]), <<F, 1>>)])

\* the number of edges whose source is v
SourceCount(edges, v) == Cardinality({i \in 1..Len(edges) : edges[i][1] = v})

Metrics(lg) == SelectSeq(lg, LAMBDA entry : entry.kind = "metrics")

LastLogged == log[Len(log)].test_result

\* C1: for every node v the error that error.py's run logs is
\* (1/F) * sum over the features with delta # 0 of |gc - gc_hat| / delta, with
\* F counting all features and zero-range features contributing 0
C1_LoggedErrorFormula ==
    Len(log) > 0 =>
        LET error == NormalizedError(dataset.x, data.x, dataset.edge_index)
        IN \A v \in 1..NumNodesOf(dataset) : LastLogged[v][1] = error[v]

\* a run on features with a zero-range and a nonzero-range column that logged
\* a nonzero error
C1_Witness ==
    /\ Len(log) > 0
    /\ \E f \in 1..NumFeatures : ColumnRange(dataset.x, f) = 0
    /\ \E f \in 1..NumFeatures : ColumnRange(dataset.x, f) # 0
    /\ \E v \in 1..NumNodes, f \in 1..NumFeatures :
          ColumnRange(dataset.x, f) = 0 /\ data.x[v][f] # dataset.x[v][f]
    /\ \E v \in 1..NumNodes : LastLogged[v][1] # Zero

\* per node, the mean over the draws of the node's error
MeanError ==
    LET error == Tensor([k \in 1..Len(draws) |->
                    NormalizedError(dataset.x, draws[k], dataset.edge_index)])
    IN Tensor([v \in 1..NumNodesOf(dataset) |->
                 FDiv(FSum([k \in 1..Len(draws) |-> error[k][v]]), <<Len(draws), 1>>)])

\* C2 as stated: what error_estimation reports for a node is its error
\* averaged over the R privatization draws
C2_ReportsAverage ==
    (pc = "done" /\ call.repeats >= 1) =>
        LET mean == MeanError
            results == Metrics(log)
        IN \A k \in 1..Len(results) : \A v \in 1..NumNodesOf(dataset) :
              results[k].test_result[v][1] = mean[v]

\* C2 amended: error_estimation logs one result per draw, the r-th holding
\* the per-node errors of the r-th draw alone, R results in all
C2_OneResultPerDraw ==
    /\ LET results == Metrics(log)
       IN \A k \in 1..Len(results) :
             /\ k <= Len(draws)
             /\ LET error == NormalizedError(dataset.x, draws[k], dataset.edge_index)
                IN \A v \in 1..NumNodesOf(dataset) : results[k].test_result[v][1] = error[v]
    /\ pc = "done" =>
          Len(Metrics(log)) = (IF call.repeats > 0 THEN call.repeats ELSE 0)

\* two runs whose draws gave different errors
C2_Witness ==
    /\ pc = "done"
    /\ call.repeats = 2
    /\ Len(Metrics(log)) = 2
    /\ Metrics(log)[1].test_result # Metrics(log)[2].test_result

\* one pair per node, the v-th holding node v's error and source degree
PairsPerNode(result, error) ==
    /\ Len(result) = NumNodesOf(dataset)
    /\ \A v \in 1..Len(result) :
          /\ Len(result[v]) = 2
          /\ result[v][1] = error[v]
          /\ result[v][2] = SourceCount(dataset.edge_index, v)

\* C3: in both ErrorEstimation classes one run yields exactly one
\* (error, degree) pair per node, in node order, the degree being the number
\* of edges whose source is the node (0 for a node that is no edge's source)
C3_PairPerNodeWithSourceDegree ==
    /\ Len(log) > 0 =>
          PairsPerNode(LastLogged, NormalizedError(dataset.x, data.x, dataset.edge_index))
    /\ pc = "task_done" =>
          PairsPerNode(ret, PlainError(dataset.x, data.x, dataset.edge_index))

\* both classes have run on a graph with one edge between two distinct nodes:
\* its source has degree 1, its target degree 0
C3_Witness ==
    /\ pc = "task_done"
    /\ Len(log) > 0
    /\ \E i \in 1..Len(dataset.edge_index) :
          /\ dataset.edge_index[i][1] # dataset.edge_index[i][2]
          /\ ret[dataset.edge_index[i][1]][2] = 1
          /\ ret[dataset.edge_index[i][2]][2] = 0
          /\ LastLogged[dataset.edge_index[i][2]][2] = 0

\* every error is >= 0, and 0 when the privatized features are the original ones
NonNegativeAndZeroWhenEqual(result) ==
    \A v \in 1..Len(result) :
        /\ FGeqZero(result[v][1])
        /\ data.x = dataset.x => result[v][1] = Zero

\* C9: in both ErrorEstimation classes every node's error is >= 0, and it is
\* 0 for every node when the privatized features equal the original ones,
\* zero-range columns included
C9_ErrorNonNegativeZeroWhenEqual ==
    /\ Len(log) > 0 => NonNegativeAndZeroWhenEqual(LastLogged)
    /\ pc = "task_done" => NonNegativeAndZeroWhenEqual(ret)

\* both classes have run on privatized features equal to the original ones,
\* one column of which has zero range
C9_Witness ==
    /\ pc = "task_done"
    /\ Len(log) > 0
    /\ data.x = dataset.x
    /\ \E f \in 1..NumFeatures : ColumnRange(dataset.x, f) = 0
    /\ \E f \in 1..NumFeatures : ColumnRange(dataset.x, f) # 0

\* the number of log entries of one kind
CountKind(kind) == Len(SelectSeq(log, LAMBDA entry : entry.kind = kind))

\* C6: the logger sees params(run 0), metrics, params(run 1), metrics, ...,
\* each privatization after the log_params of its run and before its
\* log_metrics, 2 * repeats entries in all; repeats <= 0 privatizes and logs
\* nothing
C6_ParamsMetricsAlternate ==
    /\ \A i \in 1..Len(log) :
          IF i % 2 = 1
          THEN log[i].kind = "params" /\ log[i].params.run = (i - 1) \div 2
          ELSE log[i].kind = "metrics"
    /\ CountKind("metrics") <= Len(draws)
    /\ Len(draws) <= CountKind("params")
    /\ CountKind("params") <= CountKind("metrics") + 1
    /\ pc = "done" =>
          /\ Len(log) = 2 * (IF call.repeats > 0 THEN call.repeats ELSE 0)
          /\ Len(draws) = (IF call.repeats > 0 THEN call.repeats ELSE 0)
    /\ call.repeats <= 0 => (log = <<>> /\ draws = <<>>)

\* two complete runs
C6_Witness ==
    /\ pc = "done"
    /\ call.repeats = 2
    /\ Len(log) = 4
    /\ log[3].kind = "params"
    /\ log[3].params.run = 1

\* the (dataset, method, eps) combinations of the command line in nested
\* order: dataset, then method, then eps (the values given with -e)
Combinations(ns) ==
    LET D == Len(ns["datasets"])
        M == Len(ns["methods"])
        E == Len(ns["eps_list"])
    IN [k \in 1..(D * M * E) |->
          LET d == ((k - 1) \div (M * E)) + 1
              m == (((k - 1) \div E) % M) + 1
              e == ((k - 1) % E) + 1
          IN [dataset |-> ns["datasets"][d],
              method |-> ns["methods"][m],
              eps |-> ns["eps_list"][e],
              logger |-> "error_" \o ns["datasets"][d] \o "_" \o ns["methods"][m]]]

\* C4: when main has ended, error_estimation was run exactly once for every
\* (dataset, method, eps) combination of the command line, in nested order,
\* each call logging through the logger error_<dataset>_<method> of its pair
C4_OneCallPerCombination ==
    mpc \in {"done", "AttributeError"} =>
        /\ Len(calls) = Len(Combinations(margs))
        /\ \A k \in 1..Len(calls) :
              /\ calls[k].dataset = Combinations(margs)[k].dataset
              /\ calls[k].method = Combinations(margs)[k].method
              /\ calls[k].eps = Combinations(margs)[k].eps
              /\ calls[k].logger = Combinations(margs)[k].logger

\* the train command of Python index i: dataset-major, config-minor
TrainCommandAt(i) ==
    Command(datasets[(i \div Len(configs)) + 1], args) \o configs[(i % Len(configs)) + 1]

\* C5: with grid, train_runs has one entry per (dataset, config) pair,
\* 6 x 7 = 42, dataset-major, and there is exactly one job file per train
\* command: job-<i>.job carries the name job-<i>, the chosen queue and gpumem
\* and, as its last line, the i-th train command; no command is missing from
\* the job files and none is in two of them
C5_OneJobFilePerTrainCommand ==
    /\ xpc \in {"grid", "local", "done"} =>
          /\ Len(train_runs) = 42
          /\ Len(train_runs) = Len(datasets) * Len(configs)
          /\ \A i \in 0..(Len(train_runs) - 1) : train_runs[i + 1] = TrainCommandAt(i)
          /\ \A i, j \in 1..Len(train_runs) : train_runs[i] = train_runs[j] => i = j
    /\ (xpc = "done" /\ "queue" \in DOMAIN args) =>
          /\ DOMAIN files =
                {<<args["jobs_dir"], "job-" \o ToString(i) \o ".job">> : i \in 0..(Len(train_runs) - 1)}
          /\ Cardinality(DOMAIN files) = Len(train_runs)
          /\ \A i \in 0..(Len(train_runs) - 1) :
                LET content == files[<<args["jobs_dir"], "job-" \o ToString(i) \o ".job">>]
                IN /\ content[1] = "#$ -N job-" \o ToString(i) \o "\n"
                   /\ content[4] = "#$ -l pytorch," \o args["queue"] \o ",gpumem="
                                      \o ToString(args["gpumem"]) \o "\n"
                   /\ content[Len(content)] = train_runs[i + 1] \o "\n"

\* the grid run is over and all 42 job files are there
C5_Witness ==
    /\ xpc = "done"
    /\ "queue" \in DOMAIN args
    /\ Cardinality(DOMAIN files) = 42
    /\ files[<<"./jobs", "job-41.job">>][8] = train_runs[42] \o "\n"

\* C7: the error-estimation command that experiments.py launches uses only
\* options error.py's parser defines: the launched process gets past
\* parse_args
C7_ErrorCommandParses ==
    childExit # "none" => childExit = "ok"

\* C8: with grid no train command is executed; without it every train
\* command is executed in list order and no jobs directory or job file is
\* created; the error-estimation command is executed in both modes, before
\* any job file is written and before any train command is run
C8_ModesKeptApart ==
    /\ "queue" \in DOMAIN args =>
          /\ \A i \in 1..Len(executed) : \A j \in 1..Len(train_runs) :
                executed[i] # train_runs[j]
          /\ Len(executed) <= 1
    /\ "queue" \notin DOMAIN args =>
          /\ dirs = {}
          /\ files = <<>>
          /\ xpc = "done" => SubSeq(executed, 2, Len(executed)) = train_runs
          /\ \A i \in 2..Len(executed) : executed[i] = train_runs[i - 1]
    /\ xpc = "error_run" => (executed = <<>> /\ dirs = {} /\ files = <<>>)
    /\ xpc # "error_run" => (Len(executed) >= 1 /\ executed[1] = error_run)
    /\ xpc = "done" => Len(train_runs) = Len(datasets) * Len(configs)

\* the local run is over: the error command and the 42 train commands ran
C8_Witness ==
    /\ xpc = "done"
    /\ "queue" \notin DOMAIN args
    /\ Len(executed) = 43
    /\ executed[43] = train_runs[42]

\* C10: a LearningTask exists only for ('node', 'gcn'), which selects
\* GCNClassifier, and ('link', 'gcn'), which selects VGAELinkPredictor; task
\* name 'error', listed by Task.task_list(), fails the assertion before any
\* model is built; another model name fails the model lookup
C10_OnlyNodeOrLinkWithGcn ==
    /\ "error" \in Range(TaskTaskList)
    /\ tpc = "constructed" =>
          \/ (lt["task_name"] = "node" /\ lt["model_name"] = "gcn" /\ lt["model"] = "GCNClassifier")
          \/ (lt["task_name"] = "link" /\ lt["model_name"] = "gcn" /\ lt["model"] = "VGAELinkPredictor")
    /\ targ.task_name \notin {"node", "link"} =>
          (tpc \in {"assert", "AssertionError"} /\ lt = <<>>)
    /\ (targ.task_name \in {"node", "link"} /\ targ.model_name # "gcn") =>
          (tpc \in {"assert", "super", "get_model", "KeyError"} /\ "model" \notin DOMAIN lt)
    /\ (targ.task_name \in {"node", "link"} /\ targ.model_name = "gcn") =>
          tpc \in {"assert", "super", "get_model", "constructed"}

\* a link-prediction task was constructed
C10_Witness ==
    /\ tpc = "constructed"
    /\ lt["task_name"] = "link"
    /\ lt["model"] = "VGAELinkPredictor"

====
